---- MODULE Spec2Model ----
(***************************************************************************)
(* Model of the bill extractor (Hackathon/extractor.py, Hackathon/app.py). *)
(*                                                                         *)
(* Python strings are sequences of one-character strings, so that strip,   *)
(* lower, split, join, "in" and float() are computed character by          *)
(* character.  Python floats are fixed-point integers in hundredths (see   *)
(* Scale); column boundaries, which are midpoints of two integer pixel     *)
(* positions, are integers in half-pixels.  An optional value (None or v)  *)
(* is the empty sequence or the one-element sequence <<v>>.                *)
(***************************************************************************)
EXTENDS Integers, Sequences, FiniteSets, TLC

VARIABLES pc, ocr_data, threshold, tok_i, rows, current_line, previous_y,
          row_of, header_idx, boundaries, row_i, items, item_row,
          result, response

vars == <<pc, ocr_data, threshold, tok_i, rows, current_line, previous_y,
          row_of, header_idx, boundaries, row_i, items, item_row,
          result, response>>

None == <<>>
Some(v) == <<v>>
Val(o) == o[1]

-----------------------------------------------------------------------------
(* Strings                                                                 *)

UpperChars == <<"A","B","C","D","E","F","G","H","I","J","K","L","M",
                "N","O","P","Q","R","S","T","U","V","W","X","Y","Z">>
LowerChars == <<"a","b","c","d","e","f","g","h","i","j","k","l","m",
                "n","o","p","q","r","s","t","u","v","w","x","y","z">>
DigitChars == <<"0","1","2","3","4","5","6","7","8","9">>
Whitespace == {" ", "\t", "\n"}

IsDigitChar(c) == \E d \in 1..10 : DigitChars[d] = c
DigitVal(c) == (CHOOSE d \in 1..10 : DigitChars[d] = c) - 1

(* str.lower() *)
LowerChar(c) ==
    IF \E k \in 1..26 : UpperChars[k] = c
    THEN LowerChars[CHOOSE k \in 1..26 : UpperChars[k] = c]
    ELSE c
Lower(s) == [k \in 1..Len(s) |-> LowerChar(s[k])]

(* str.strip() *)
RECURSIVE LStrip(_)
LStrip(s) == IF s # <<>> /\ Head(s) \in Whitespace THEN LStrip(Tail(s)) ELSE s
RECURSIVE RStrip(_)
RStrip(s) ==
    IF s # <<>> /\ s[Len(s)] \in Whitespace
    THEN RStrip(SubSeq(s, 1, Len(s) - 1)) ELSE s
Strip(s) == RStrip(LStrip(s))

(* sep.join(parts) *)
RECURSIVE Join(_, _)
Join(parts, sep) ==
    IF parts = <<>> THEN <<>>
    ELSE IF Len(parts) = 1 THEN parts[1]
    ELSE parts[1] \o sep \o Join(Tail(parts), sep)

(* sub in s *)
Contains(s, sub) ==
    \E k \in 1..(Len(s) - Len(sub) + 1) : SubSeq(s, k, k + Len(sub) - 1) = sub

(* s.replace(c, "") for a one-character c *)
RECURSIVE RemoveChar(_, _)
RemoveChar(s, c) ==
    IF s = <<>> THEN <<>>
    ELSE IF Head(s) = c THEN RemoveChar(Tail(s), c)
    ELSE <<Head(s)>> \o RemoveChar(Tail(s), c)

(* str.split(): the maximal runs of non-whitespace characters *)
RECURSIVE SplitFrom(_, _)
SplitFrom(s, word) ==
    IF s = <<>> THEN (IF word = <<>> THEN <<>> ELSE <<word>>)
    ELSE IF Head(s) \in Whitespace
         THEN (IF word = <<>> THEN <<>> ELSE <<word>>) \o SplitFrom(Tail(s), <<>>)
         ELSE SplitFrom(Tail(s), Append(word, Head(s)))
Split(s) == SplitFrom(s, <<>>)

(* str.isdigit() *)
IsDigit(s) == s # <<>> /\ \A k \in 1..Len(s) : IsDigitChar(s[k])

Abs(n) == IF n < 0 THEN -n ELSE n

-----------------------------------------------------------------------------
(* group_tokens_by_line                                                    *)

(* sorted(line, key=lambda v: v[0]): a stable sort by x *)
RECURSIVE InsertByX(_, _)
InsertByX(sorted, e) ==
    IF sorted = <<>> THEN <<e>>
    ELSE IF sorted[Len(sorted)].x <= e.x THEN Append(sorted, e)
    ELSE Append(InsertByX(SubSeq(sorted, 1, Len(sorted) - 1), e), sorted[Len(sorted)])
RECURSIVE SortByX(_)
SortByX(line) ==
    IF line = <<>> THEN <<>>
    ELSE InsertByX(SortByX(SubSeq(line, 1, Len(line) - 1)), line[Len(line)])

(* zip(ocr_data["left"], ocr_data["top"], ocr_data["text"]) *)
MinOf3(a, b, c) == IF a <= b /\ a <= c THEN a ELSE IF b <= c THEN b ELSE c
ZipLen(d) == MinOf3(Len(d.left), Len(d.top), Len(d.text))
ZipAt(d, k) == [x |-> d.left[k], y |-> d.top[k], token |-> d.text[k]]

(* The state of the loop before its first iteration. *)
GroupStart == [rows |-> <<>>, current_line |-> <<>>, previous_y |-> None]

(* One iteration of the loop over the zipped tokens. *)
GroupStep_Unsorted(st, t, T) ==
    LET cleaned == Strip(t.token) IN
    IF cleaned = <<>> THEN st
    ELSE IF st.previous_y = None \/ Abs(t.y - Val(st.previous_y)) <= T
    THEN [st EXCEPT !.current_line = Append(@, [x |-> t.x, text |-> cleaned]),
                    !.previous_y = Some(t.y)]
    ELSE [rows |-> Append(st.rows, st.current_line),
          current_line |-> <<[x |-> t.x, text |-> cleaned]>>,
          previous_y |-> Some(t.y)]
GroupStep_Signed(st, t, T) ==
    LET cleaned == Strip(t.token) IN
    IF cleaned = <<>> THEN st
    ELSE IF st.previous_y = None \/ t.y - Val(st.previous_y) <= T
    THEN [st EXCEPT !.current_line = Append(@, [x |-> t.x, text |-> cleaned]),
                    !.previous_y = Some(t.y)]
    ELSE [rows |-> Append(st.rows, SortByX(st.current_line)),
          current_line |-> <<[x |-> t.x, text |-> cleaned]>>,
          previous_y |-> Some(t.y)]
GroupStep(st, t, T) ==
    LET cleaned == Strip(t.token) IN
    IF cleaned = <<>> THEN st
    ELSE IF st.previous_y = None \/ Abs(t.y - Val(st.previous_y)) <= T
    THEN [st EXCEPT !.current_line = Append(@, [x |-> t.x, text |-> cleaned]),
                    !.previous_y = Some(t.y)]
    ELSE [rows |-> Append(st.rows, SortByX(st.current_line)),
          current_line |-> <<[x |-> t.x, text |-> cleaned]>>,
          previous_y |-> Some(t.y)]

(* The flush after the loop. *)
GroupFlush(st) ==
    IF st.current_line # <<>>
    THEN Append(st.rows, SortByX(st.current_line))
    ELSE st.rows

RECURSIVE GroupLoop(_, _, _, _)
GroupLoop(st, d, k, T) ==
    IF k > ZipLen(d) THEN st
    ELSE GroupLoop(GroupStep(st, ZipAt(d, k), T), d, k + 1, T)

GroupTokensByLine(d, T) == GroupFlush(GroupLoop(GroupStart, d, 1, T))

-----------------------------------------------------------------------------
(* find_table_header                                                       *)

S_description == <<"d","e","s","c","r","i","p","t","i","o","n">>
S_desc == <<"d","e","s","c">>
S_qty == <<"q","t","y">>
S_rate == <<"r","a","t","e">>
S_amount == <<"a","m","o","u","n","t">>
S_gross == <<"g","r","o","s","s">>
S_net == <<"n","e","t">>
S_category_total == <<"c","a","t","e","g","o","r","y"," ","t","o","t","a","l">>
S_printed == <<"p","r","i","n","t","e","d">>

(* " ".join(word for _, word in row).lower() *)
RowText(row) == Lower(Join([j \in 1..Len(row) |-> row[j].text], <<" ">>))

IsHeaderText_QtyOnly(merged) == Contains(merged, S_qty)
IsHeaderText(merged) ==
    \/ Contains(merged, S_description) /\ Contains(merged, S_qty) /\ Contains(merged, S_rate)
    \/ Contains(merged, S_qty) /\ (Contains(merged, S_gross) \/ Contains(merged, S_amount))

(* The loop over enumerate(rows) from idx on: the 0-based index of the     *)
(* first Row that passes the header test, or None.                         *)
RECURSIVE HeaderSearch(_, _)
HeaderSearch(rs, idx) ==
    IF idx >= Len(rs) THEN None
    ELSE IF IsHeaderText(RowText(rs[idx + 1])) THEN Some(idx)
    ELSE HeaderSearch(rs, idx + 1)

NoPositions == [desc |-> None, qty |-> None, rate |-> None, amt |-> None]

(* The loop over the header row's tokens, from token j on. *)
RECURSIVE LabelPositions(_, _, _)
LabelPositions(positions, header_row, j) ==
    IF j > Len(header_row) THEN positions
    ELSE LET x == header_row[j].x
             w == Lower(header_row[j].text)
             next == IF Contains(w, S_desc) THEN [positions EXCEPT !.desc = Some(x)]
                     ELSE IF Contains(w, S_qty) THEN [positions EXCEPT !.qty = Some(x)]
                     ELSE IF Contains(w, S_rate) THEN [positions EXCEPT !.rate = Some(x)]
                     ELSE IF Contains(w, S_amount) \/ Contains(w, S_gross) \/ Contains(w, S_net)
                          THEN [positions EXCEPT !.amt = Some(x)]
                     ELSE positions
         IN LabelPositions(next, header_row, j + 1)

(* [v for v in positions.values() if v is not None] *)
PresentPositions(positions) ==
    positions.desc \o positions.qty \o positions.rate \o positions.amt

(* xs.sort() *)
RECURSIVE InsertInt(_, _)
InsertInt(sorted, v) ==
    IF sorted = <<>> THEN <<v>>
    ELSE IF sorted[Len(sorted)] <= v THEN Append(sorted, v)
    ELSE Append(InsertInt(SubSeq(sorted, 1, Len(sorted) - 1), v), sorted[Len(sorted)])
RECURSIVE SortInts(_)
SortInts(xs) ==
    IF xs = <<>> THEN <<>>
    ELSE InsertInt(SortInts(SubSeq(xs, 1, Len(xs) - 1)), xs[Len(xs)])

(* The boundaries dict; a value is (a + b) / 2 in half-pixels, a + b.      *)
Midpoints(xs) ==
    (IF Len(xs) > 1 THEN "desc_end" :> (xs[1] + xs[2]) ELSE <<>>)
    @@ (IF Len(xs) > 2 THEN "qty_end" :> (xs[2] + xs[3]) ELSE <<>>)
    @@ (IF Len(xs) > 3 THEN "rate_end" :> (xs[3] + xs[4]) ELSE <<>>)

ColumnCuts_NoSort(header_row) ==
    Midpoints(PresentPositions(LabelPositions(NoPositions, header_row, 1)))
ColumnCuts(header_row) ==
    Midpoints(SortInts(PresentPositions(LabelPositions(NoPositions, header_row, 1))))

FindTableHeader(rs) ==
    LET found == HeaderSearch(rs, 0) IN
    IF found = None
    THEN [header_index |-> None, boundaries |-> None]
    ELSE [header_index |-> found,
          boundaries |-> Some(ColumnCuts(rs[Val(found) + 1]))]

-----------------------------------------------------------------------------
(* as_number, strip_serial, extract_line_items                             *)

(* A float is kept as an integer number of hundredths: 1.0 is Scale. *)
Scale == 100

RECURSIVE DigitsValue(_)
DigitsValue(s) ==
    IF s = <<>> THEN 0 ELSE 10 * DigitsValue(SubSeq(s, 1, Len(s) - 1)) + DigitVal(s[Len(s)])

(* float(s) for the decimal literals [sign] digits [. digits] and          *)
(* [sign] . digits, and its ValueError (None) for every other text made of *)
(* signs, digits, points and letters that is not an exponent form or one   *)
(* of the words inf, infinity, nan (digit-group underscores are not        *)
(* modelled either).  Digits after the second decimal are below the        *)
(* resolution of the fixed-point value.                                    *)
ParseFloat(s) ==
    LET t == Strip(s)
        signed == t # <<>> /\ t[1] \in {"+", "-"}
        body == IF signed THEN Tail(t) ELSE t
        points == { k \in 1..Len(body) : body[k] = "." }
        wellFormed ==
            /\ Cardinality(points) <= 1
            /\ \A k \in (1..Len(body)) \ points : IsDigitChar(body[k])
            /\ Len(body) > Cardinality(points)
        cut == IF points = {} THEN Len(body) + 1 ELSE CHOOSE k \in points : TRUE
        whole == SubSeq(body, 1, cut - 1)
        frac == IF points = {} THEN <<>>
                ELSE SubSeq(body \o <<"0", "0">>, cut + 1, cut + 2)
        magnitude == Scale * DigitsValue(whole) + DigitsValue(frac)
    IN IF ~wellFormed THEN None
       ELSE Some(IF signed /\ t[1] = "-" THEN -magnitude ELSE magnitude)

AsNumber(value) == ParseFloat(RemoveChar(value, ","))

StripSerial(desc) ==
    LET parts == Split(desc) IN
    IF parts # <<>> /\ IsDigit(parts[1])
    THEN Join(Tail(parts), <<" ">>)
    ELSE desc

Unbounded == 99999

(* boundaries.get(name, 99999), in half-pixels *)
Cut(b, name) == IF name \in DOMAIN b THEN b[name] ELSE 2 * Unbounded

(* The column a token at x is put in. *)
BucketOf(x, b) ==
    IF 2 * x < Cut(b, "desc_end") THEN "desc"
    ELSE IF 2 * x < Cut(b, "qty_end") THEN "qty"
    ELSE IF 2 * x < Cut(b, "rate_end") THEN "rate"
    ELSE "amt"

(* The texts of the row's tokens that fall in one column, in row order. *)
Column(row, b, col) ==
    LET inCol == SelectSeq(row, LAMBDA e : BucketOf(e.x, b) = col)
    IN [j \in 1..Len(inCol) |-> inCol[j].text]

(* The first token of amt_col that as_number accepts, or None. *)
RECURSIVE FirstNumber(_)
FirstNumber(col) ==
    IF col = <<>> THEN None
    ELSE IF AsNumber(Head(col)) # None THEN AsNumber(Head(col))
    ELSE FirstNumber(Tail(col))

(* The markers tested on a row's text before it is parsed. *)
RowMarker_PrintedSkips(row_text_full) ==
    IF Contains(row_text_full, S_category_total) THEN "skip"
    ELSE IF Contains(row_text_full, S_printed) THEN "skip"
    ELSE "parse"
RowMarker_CategoryStops(row_text_full) ==
    IF Contains(row_text_full, S_category_total) THEN "stop"
    ELSE IF Contains(row_text_full, S_printed) THEN "stop"
    ELSE "parse"
RowMarker(row_text_full) ==
    IF Contains(row_text_full, S_category_total) THEN "skip"
    ELSE IF Contains(row_text_full, S_printed) THEN "stop"
    ELSE "parse"

(* v if v else d *)
OrDefault_NoneOnly(v, d) == IF v # None THEN Val(v) ELSE d
OrDefault(v, d) == IF v # None /\ Val(v) # 0 THEN Val(v) ELSE d

(* One iteration of the loop over rows[header_row_idx + 1:]: what happens  *)
(* to the row, and the item appended if one is.                            *)
ScanRow(row, b) ==
    LET marker == RowMarker(RowText(row))
        description == StripSerial(Strip(Join(Column(row, b, "desc"), <<" ">>)))
        quantity == AsNumber(Join(Column(row, b, "qty"), <<>>))
        rate_val == AsNumber(Join(Column(row, b, "rate"), <<>>))
        amount_val == FirstNumber(Column(row, b, "amt"))
    IN IF marker # "parse" THEN [kind |-> marker]
       ELSE IF description = <<>> \/ amount_val = None THEN [kind |-> "drop"]
       ELSE [kind |-> "emit",
             item |-> [item_name |-> description,
                       item_quantity |-> OrDefault(quantity, Scale),
                       item_rate |-> OrDefault(rate_val, Val(amount_val)),
                       item_amount |-> Val(amount_val)]]

(* The loop from the row at 0-based index k on. *)
RECURSIVE ScanLoop(_, _, _, _)
ScanLoop(rs, b, k, acc) ==
    IF k >= Len(rs) THEN acc
    ELSE LET step == ScanRow(rs[k + 1], b) IN
         IF step.kind = "stop" THEN acc
         ELSE IF step.kind = "emit" THEN ScanLoop(rs, b, k + 1, Append(acc, step.item))
         ELSE ScanLoop(rs, b, k + 1, acc)

ExtractLineItems(rs, header_row_idx, bounds) ==
    IF header_row_idx = None \/ bounds = None THEN <<>>
    ELSE ScanLoop(rs, Val(bounds), Val(header_row_idx) + 1, <<>>)

-----------------------------------------------------------------------------
(* extract_bill_info_from_url and the endpoint extract_bill_data           *)

DefaultThreshold == 12

(* sum(item["item_amount"] for item in line_items) *)
RECURSIVE SumAmounts_OfRates(_)
SumAmounts_OfRates(line_items) ==
    IF line_items = <<>> THEN 0
    ELSE SumAmounts_OfRates(SubSeq(line_items, 1, Len(line_items) - 1))
         + line_items[Len(line_items)].item_rate
RECURSIVE SumAmounts(_)
SumAmounts(line_items) ==
    IF line_items = <<>> THEN 0
    ELSE SumAmounts(SubSeq(line_items, 1, Len(line_items) - 1))
         + line_items[Len(line_items)].item_amount

(* The dict extract_bill_info_from_url returns. *)
BillInfo(line_items) ==
    [is_success |-> TRUE,
     data |-> [pagewise_line_items |-> <<[page_no |-> "1", bill_items |-> line_items]>>,
               total_item_count |-> Len(line_items),
               reconciled_amount |-> SumAmounts(line_items)]]

(* The dicts the endpoint returns. *)
SuccessResponse(res) == [is_success |-> TRUE, data |-> Some(res), error |-> None]
FailureResponse(err) ==
    [is_success |-> FALSE, data |-> None, error |-> Some("Processing failed: " \o err)]

-----------------------------------------------------------------------------
(* Specification SpecGroup: group_tokens_by_line, one loop iteration per   *)
(* step, over every short token list.  row_of records, for each input      *)
(* token, the 1-based number of the Row it was put in (0: discarded).      *)

MaxTokens == 3
MaxY == 2

GroupX == {0, 1}
GroupY == 0..MaxY
GroupText == { <<" ">>, <<" ", "b", " ">> }
Thresholds == {0, 1}
GroupTokens == [x : GroupX, y : GroupY, token : GroupText]
GroupInputs == UNION { [1..n -> GroupTokens] : n \in 0..MaxTokens }

OcrDict(toks) ==
    [left |-> [k \in 1..Len(toks) |-> toks[k].x],
     top  |-> [k \in 1..Len(toks) |-> toks[k].y],
     text |-> [k \in 1..Len(toks) |-> toks[k].token]]

Idle ==
    /\ header_idx = None /\ boundaries = None
    /\ row_i = 0 /\ items = <<>> /\ item_row = <<>>
    /\ result = None /\ response = None

InitGroup ==
    /\ pc = "group"
    /\ \E toks \in GroupInputs : ocr_data = OcrDict(toks)
    /\ threshold \in Thresholds
    /\ tok_i = 1
    /\ rows = GroupStart.rows
    /\ current_line = GroupStart.current_line
    /\ previous_y = GroupStart.previous_y
    /\ row_of = <<>>
    /\ Idle

LoopState == [rows |-> rows, current_line |-> current_line, previous_y |-> previous_y]

GroupIterate(kind) ==
    /\ pc = "group"
    /\ tok_i <= ZipLen(ocr_data)
    /\ LET t == ZipAt(ocr_data, tok_i)
           st == GroupStep(LoopState, t, threshold)
       IN /\ kind = (IF st = LoopState THEN "blank"
                     ELSE IF Len(st.rows) = Len(rows) THEN "same" ELSE "new")
          /\ rows' = st.rows
          /\ current_line' = st.current_line
          /\ previous_y' = st.previous_y
          /\ row_of' = Append(row_of, IF kind = "blank" THEN 0 ELSE Len(st.rows) + 1)
    /\ tok_i' = tok_i + 1
    /\ UNCHANGED <<pc, ocr_data, threshold, header_idx, boundaries, row_i,
                   items, item_row, result, response>>

GroupSkipBlank == GroupIterate("blank")
GroupSameLine == GroupIterate("same")
GroupNewLine == GroupIterate("new")

GroupReturn ==
    /\ pc = "group"
    /\ tok_i > ZipLen(ocr_data)
    /\ rows' = GroupFlush(LoopState)
    /\ current_line' = <<>>
    /\ pc' = "grouped"
    /\ UNCHANGED <<ocr_data, threshold, tok_i, previous_y, row_of, header_idx,
                   boundaries, row_i, items, item_row, result, response>>

NextGroup == GroupSkipBlank \/ GroupSameLine \/ GroupNewLine \/ GroupReturn

SpecGroup == InitGroup /\ [][NextGroup]_vars

(* The input tokens that are not whitespace-only, as the Row entries they  *)
(* must become.                                                            *)
Kept == { k \in 1..ZipLen(ocr_data) : Strip(ocr_data.text[k]) # <<>> }
Entry(k) == [x |-> ocr_data.left[k], text |-> Strip(ocr_data.text[k])]
Occurrences(row, e) == Cardinality({ j \in 1..Len(row) : row[j] = e })

(* C6: grouping loses and invents nothing: every Row is non-empty and in   *)
(* ascending x order, and each Row holds exactly the non-blank input       *)
(* tokens that were put in it (as x and trimmed text), every such token in *)
(* exactly one Row, and no whitespace-only token in any.                   *)
C6_GroupingKeepsTokens ==
    pc = "grouped" =>
        /\ \A r \in 1..Len(rows) :
              /\ rows[r] # <<>>
              /\ \A j \in 1..(Len(rows[r]) - 1) : rows[r][j].x <= rows[r][j + 1].x
              /\ \A j \in 1..Len(rows[r]) : rows[r][j].text # <<>>
              /\ \A j \in 1..Len(rows[r]) :
                    Occurrences(rows[r], rows[r][j]) =
                        Cardinality({ k \in Kept : row_of[k] = r /\ Entry(k) = rows[r][j] })
        /\ \A k \in 1..ZipLen(ocr_data) :
              IF k \in Kept
              THEN row_of[k] \in 1..Len(rows) /\ Occurrences(rows[row_of[k]], Entry(k)) >= 1
              ELSE row_of[k] = 0

C6_Witness ==
    /\ pc = "grouped"
    /\ \E k \in 1..ZipLen(ocr_data) : k \notin Kept
    /\ \E k1, k2 \in Kept :
          k1 < k2 /\ row_of[k1] = row_of[k2] /\ ocr_data.left[k1] > ocr_data.left[k2]

(* Two kept tokens with no kept token between them in the input. *)
Adjacent(k1, k2) == k1 < k2 /\ \A k \in (k1 + 1)..(k2 - 1) : k \notin Kept

(* C7 as stated: any two tokens of one Row have y-coordinates within T.    *)
C7_AnyTwoWithinThreshold ==
    pc = "grouped" =>
        \A k1, k2 \in Kept :
            row_of[k1] = row_of[k2] =>
                Abs(ocr_data.top[k1] - ocr_data.top[k2]) <= threshold

(* C7 amended: two tokens that follow one another in the input (blank     *)
(* tokens aside) and are in one Row have y-coordinates within T.           *)
C7_AdjacentWithinThreshold ==
    pc = "grouped" =>
        \A k1, k2 \in Kept :
            (Adjacent(k1, k2) /\ row_of[k1] = row_of[k2]) =>
                Abs(ocr_data.top[k1] - ocr_data.top[k2]) <= threshold

C7_Witness ==
    /\ pc = "grouped"
    /\ \E k1, k2 \in Kept :
          /\ Adjacent(k1, k2) /\ row_of[k1] = row_of[k2]
          /\ ocr_data.top[k1] # ocr_data.top[k2]
    /\ \E k1, k2 \in Kept : Adjacent(k1, k2) /\ row_of[k1] # row_of[k2]

-----------------------------------------------------------------------------
(* Specification SpecHeader: find_table_header over Rows as                *)
(* group_tokens_by_line returns them (non-empty, ascending in x, trimmed   *)
(* non-empty texts): every placement of the words below on the columns     *)
(* 0..MaxCol, alone or after a title Row.                                  *)

MaxCol == 3

W_Description == <<"D","e","s","c","r","i","p","t","i","o","n">>
W_Qty == <<"Q","t","y">>
W_Rate == <<"R","a","t","e">>
W_Amount == <<"A","m","o","u","n","t">>
W_Net == <<"N","e","t">>
W_Item == <<"I","t","e","m">>
W_Invoice == <<"I","n","v","o","i","c","e">>

HeaderWords == { W_Description, W_Qty, W_Rate, W_Amount, W_Net, W_Item }

(* The Row that has word place[c] at x = c for each column c it covers. *)
RECURSIVE RowOfPlacement(_, _)
RowOfPlacement(place, c) ==
    IF c > MaxCol THEN <<>>
    ELSE (IF place[c] = <<>> THEN <<>> ELSE <<[x |-> c, text |-> place[c]]>>)
         \o RowOfPlacement(place, c + 1)

HeaderRows ==
    { RowOfPlacement(place, 0) : place \in [0..MaxCol -> HeaderWords \cup {<<>>}] } \ {<<>>}
TitleRow == <<[x |-> 1, text |-> W_Invoice]>>

InitHeader ==
    /\ pc = "grouped"
    /\ ocr_data = OcrDict(<<>>)
    /\ threshold = 0
    /\ tok_i = 1
    /\ \E r \in HeaderRows : rows \in { <<r>>, <<TitleRow, r>> }
    /\ current_line = <<>>
    /\ previous_y = None
    /\ row_of = <<>>
    /\ Idle

(* find_table_header returns a header, and extract_line_items starts      *)
(* after it.                                                               *)
HeaderFound ==
    /\ pc = "grouped"
    /\ LET h == FindTableHeader(rows) IN
          /\ h.header_index # None
          /\ header_idx' = h.header_index
          /\ boundaries' = h.boundaries
          /\ row_i' = Val(h.header_index) + 1
    /\ pc' = "scan"
    /\ UNCHANGED <<ocr_data, threshold, tok_i, rows, current_line, previous_y,
                   row_of, items, item_row, result, response>>

(* find_table_header returns (None, None), and extract_line_items returns  *)
(* [] at once.                                                             *)
HeaderMissing ==
    /\ pc = "grouped"
    /\ LET h == FindTableHeader(rows) IN
          /\ h.header_index = None
          /\ header_idx' = h.header_index
          /\ boundaries' = h.boundaries
    /\ pc' = "scanned"
    /\ UNCHANGED <<ocr_data, threshold, tok_i, rows, current_line, previous_y,
                   row_of, row_i, items, item_row, result, response>>

NextHeader == HeaderFound \/ HeaderMissing

SpecHeader == InitHeader /\ [][NextHeader]_vars

(* The x of the last token of the row whose lower-cased text has one of    *)
(* the given labels and none of the labels of an earlier slot.             *)
HasAny(w, labels) == \E l \in labels : Contains(w, l)
SlotTokens(row, labels, earlier) ==
    { j \in 1..Len(row) : HasAny(Lower(row[j].text), labels)
                          /\ ~HasAny(Lower(row[j].text), earlier) }
Last(S) == CHOOSE j \in S : \A k \in S : k <= j
SlotXs(row) ==
    LET slot(labels, earlier) ==
            LET S == SlotTokens(row, labels, earlier) IN
            IF S = {} THEN <<>> ELSE <<row[Last(S)].x>>
    IN slot({S_desc}, {})
       \o slot({S_qty}, {S_desc})
       \o slot({S_rate}, {S_desc, S_qty})
       \o slot({S_amount, S_gross, S_net}, {S_desc, S_qty, S_rate})
BoundaryNames == <<"desc_end", "qty_end", "rate_end">>
IsAscendingPermutation(ys, xs) ==
    /\ Len(ys) = Len(xs)
    /\ \A j \in 1..(Len(ys) - 1) : ys[j] <= ys[j + 1]
    /\ \A v \in {xs[j] : j \in 1..Len(xs)} \cup {ys[j] : j \in 1..Len(ys)} :
          Cardinality({j \in 1..Len(xs) : xs[j] = v})
              = Cardinality({j \in 1..Len(ys) : ys[j] = v})

(* C8: for a found header with k recognized label slots, the boundaries    *)
(* are the first max(0, k-1) of desc_end, qty_end, rate_end, the i-th is   *)
(* the midpoint of the i-th and (i+1)-th smallest label positions, and     *)
(* desc_end <= qty_end <= rate_end.                                        *)
C8_BoundariesAreSortedMidpoints ==
    pc = "scan" =>
        LET b == Val(boundaries)
            xs == SlotXs(rows[Val(header_idx) + 1])
            k == Len(xs)
            n == IF k = 0 THEN 0 ELSE k - 1
        IN /\ n \in 0..3
           /\ DOMAIN b = { BoundaryNames[i] : i \in 1..n }
           /\ \E ys \in [1..k -> {xs[j] : j \in 1..k}] :
                 /\ IsAscendingPermutation(ys, xs)
                 /\ \A i \in 1..n : b[BoundaryNames[i]] = ys[i] + ys[i + 1]
           /\ \A i \in 1..(n - 1) : b[BoundaryNames[i]] <= b[BoundaryNames[i + 1]]

C8_Witness ==
    /\ pc = "scan"
    /\ header_idx = Some(1)
    /\ DOMAIN Val(boundaries) = {"desc_end", "qty_end", "rate_end"}
    /\ LET row == rows[2] IN
          \E j1, j2 \in 1..Len(row) :
              /\ j1 < j2
              /\ Contains(Lower(row[j1].text), S_amount)
              /\ Contains(Lower(row[j2].text), S_desc)

-----------------------------------------------------------------------------
(* Specification Spec: one request to the endpoint.  The OCR output is a   *)
(* page of up to MaxLines printed lines, each one of the lines below; the  *)
(* tokens of the k-th line are at y = 20 * k + dy.  item_row records, for  *)
(* each emitted item, the 0-based index of the Row it came from.           *)

MaxLines == 3

L_Header4 ==
    <<[x |-> 10, dy |-> 0, token |-> <<"D","e","s","c","r","i","p","t","i","o","n">>],
     [x |-> 200, dy |-> 0, token |-> <<"Q","t","y">>],
     [x |-> 300, dy |-> 1, token |-> <<"R","a","t","e">>],
     [x |-> 400, dy |-> 0, token |-> <<"A","m","o","u","n","t">>]>>
L_Header2 ==
    <<[x |-> 200, dy |-> 0, token |-> <<"Q","t","y">>],
     [x |-> 400, dy |-> 0, token |-> <<"A","m","o","u","n","t">>]>>
L_Item1 ==
    <<[x |-> 40, dy |-> 0, token |-> <<" ","W","i","d","g","e","t"," ">>],
     [x |-> 10, dy |-> 2, token |-> <<"1">>],
     [x |-> 100, dy |-> 0, token |-> <<" ">>],
     [x |-> 210, dy |-> 1, token |-> <<"2">>],
     [x |-> 310, dy |-> 0, token |-> <<"5",".","0","0">>],
     [x |-> 410, dy |-> 3, token |-> <<"1","0",".","0","0">>]>>
L_Item2 ==
    <<[x |-> 40, dy |-> 0, token |-> <<"G","a","d","g","e","t">>],
     [x |-> 210, dy |-> 0, token |-> <<"0">>],
     [x |-> 380, dy |-> 0, token |-> <<"R","s">>],
     [x |-> 410, dy |-> 0, token |-> <<"1",",","2","3","4",".","5","0">>]>>
L_Serial ==
    <<[x |-> 10, dy |-> 0, token |-> <<"7">>],
     [x |-> 410, dy |-> 0, token |-> <<"3",".","0","0">>]>>
L_Category ==
    <<[x |-> 10, dy |-> 0, token |-> <<"C","a","t","e","g","o","r","y">>],
     [x |-> 60, dy |-> 0, token |-> <<"T","o","t","a","l">>],
     [x |-> 410, dy |-> 0, token |-> <<"1","5",".","0","0">>]>>
L_Printed ==
    <<[x |-> 10, dy |-> 0, token |-> <<"P","r","i","n","t","e","d">>],
     [x |-> 60, dy |-> 0, token |-> <<"o","n">>],
     [x |-> 410, dy |-> 0, token |-> <<"9",".","0","0">>]>>
L_CategoryPrinted ==
    <<[x |-> 10, dy |-> 0, token |-> <<"C","a","t","e","g","o","r","y">>],
     [x |-> 60, dy |-> 0, token |-> <<"T","o","t","a","l">>],
     [x |-> 250, dy |-> 0, token |-> <<"P","r","i","n","t","e","d">>],
     [x |-> 410, dy |-> 0, token |-> <<"2",".","0","0">>]>>
L_TotalQty ==
    <<[x |-> 10, dy |-> 0, token |-> <<"T","o","t","a","l">>],
     [x |-> 200, dy |-> 0, token |-> <<"Q","t","y">>],
     [x |-> 410, dy |-> 0, token |-> <<"3">>]>>

LinePool == { L_Header4, L_Header2, L_Item1, L_Item2, L_Serial, L_Category, L_Printed, L_CategoryPrinted, L_TotalQty }
Pages == UNION { [1..n -> LinePool] : n \in 0..MaxLines }

RECURSIVE PageTokens(_, _)
PageTokens(page, k) ==
    IF k > Len(page) THEN <<>>
    ELSE [j \in 1..Len(page[k]) |->
             [x |-> page[k][j].x, y |-> 20 * k + page[k][j].dy, token |-> page[k][j].token]]
         \o PageTokens(page, k + 1)

Init ==
    /\ pc = "request"
    /\ \E page \in Pages : ocr_data = OcrDict(PageTokens(page, 1))
    /\ threshold = DefaultThreshold
    /\ tok_i = 1
    /\ rows = <<>>
    /\ current_line = <<>>
    /\ previous_y = None
    /\ row_of = <<>>
    /\ Idle

(* load_image_from_url or text_with_boxes raises; the endpoint catches it. *)
CollaboratorFails ==
    /\ pc = "request"
    /\ \E err \in {"HTTPError", "TesseractError"} : response' = Some(FailureResponse(err))
    /\ pc' = "responded"
    /\ UNCHANGED <<ocr_data, threshold, tok_i, rows, current_line, previous_y,
                   row_of, header_idx, boundaries, row_i, items, item_row, result>>

(* rows = group_tokens_by_line(ocr_data) *)
GroupRows ==
    /\ pc = "request"
    /\ rows' = GroupTokensByLine(ocr_data, threshold)
    /\ pc' = "grouped"
    /\ UNCHANGED <<ocr_data, threshold, tok_i, current_line, previous_y, row_of,
                   header_idx, boundaries, row_i, items, item_row, result, response>>

(* One iteration of the loop of extract_line_items, on the Row at row_i. *)
ScanIterate(kind) ==
    /\ pc = "scan"
    /\ row_i < Len(rows)
    /\ LET step == ScanRow(rows[row_i + 1], Val(boundaries)) IN
          /\ step.kind = kind
          /\ IF kind = "emit"
             THEN items' = Append(items, step.item) /\ item_row' = Append(item_row, row_i)
             ELSE UNCHANGED <<items, item_row>>
    /\ IF kind = "stop"
       THEN pc' = "scanned" /\ UNCHANGED row_i
       ELSE pc' = pc /\ row_i' = row_i + 1
    /\ UNCHANGED <<ocr_data, threshold, tok_i, rows, current_line, previous_y,
                   row_of, header_idx, boundaries, result, response>>

ScanSkip == ScanIterate("skip")
ScanStop == ScanIterate("stop")
ScanDrop == ScanIterate("drop")
ScanEmit == ScanIterate("emit")

ScanEnd ==
    /\ pc = "scan"
    /\ row_i >= Len(rows)
    /\ pc' = "scanned"
    /\ UNCHANGED <<ocr_data, threshold, tok_i, rows, current_line, previous_y,
                   row_of, header_idx, boundaries, row_i, items, item_row,
                   result, response>>

(* extract_bill_info_from_url returns. *)
ReturnBillInfo ==
    /\ pc = "scanned"
    /\ result' = Some(BillInfo(items))
    /\ pc' = "returned"
    /\ UNCHANGED <<ocr_data, threshold, tok_i, rows, current_line, previous_y,
                   row_of, header_idx, boundaries, row_i, items, item_row, response>>

(* The endpoint returns its success envelope. *)
Respond ==
    /\ pc = "returned"
    /\ response' = Some(SuccessResponse(Val(result)))
    /\ pc' = "responded"
    /\ UNCHANGED <<ocr_data, threshold, tok_i, rows, current_line, previous_y,
                   row_of, header_idx, boundaries, row_i, items, item_row, result>>

Next ==
    \/ CollaboratorFails
    \/ GroupRows
    \/ HeaderFound
    \/ HeaderMissing
    \/ ScanSkip
    \/ ScanStop
    \/ ScanDrop
    \/ ScanEmit
    \/ ScanEnd
    \/ ReturnBillInfo
    \/ Respond

Spec == Init /\ [][Next]_vars

-----------------------------------------------------------------------------
(* Properties of extract_line_items, checked when its loop has ended.      *)

(* The 0-based indices of the Rows after the header row. *)
AfterHeader == (Val(header_idx) + 1)..(Len(rows) - 1)
Says(r, words) == Contains(RowText(rows[r + 1]), words)
ItemsFrom(r) == { k \in 1..Len(items) : item_row[k] = r }

(* C1 as stated: a Row after the header whose text contains "printed"      *)
(* yields no LineItem, and neither does any Row after it.                  *)
C1_PrintedAlwaysHalts ==
    (pc = "scanned" /\ header_idx # None) =>
        \A r \in AfterHeader :
            Says(r, S_printed) => \A k \in 1..Len(items) : item_row[k] < r

(* C1 amended: a Row after the header whose text contains "printed" and    *)
(* not "category total" yields no LineItem, and neither does any Row       *)
(* after it.                                                               *)
C1_PrintedHaltsUnlessCategoryTotal ==
    (pc = "scanned" /\ header_idx # None) =>
        \A r \in AfterHeader :
            (Says(r, S_printed) /\ ~Says(r, S_category_total)) =>
                \A k \in 1..Len(items) : item_row[k] < r

C1_Witness ==
    /\ pc = "scanned" /\ header_idx # None
    /\ \E r, r2 \in AfterHeader :
          /\ Says(r, S_printed) /\ ~Says(r, S_category_total)
          /\ r < r2
          /\ ScanRow(rows[r2 + 1], Val(boundaries)).kind = "emit"

RemoveAt(seq, j) == SubSeq(seq, 1, j - 1) \o SubSeq(seq, j + 1, Len(seq))

(* C2: a Row after the header whose text contains "category total" yields  *)
(* no LineItem, and the items are the ones extract_line_items returns for  *)
(* the same Rows without that Row.                                         *)
C2_CategoryTotalIsSkipped ==
    (pc = "scanned" /\ header_idx # None) =>
        \A r \in AfterHeader :
            Says(r, S_category_total) =>
                /\ ItemsFrom(r) = {}
                /\ items = ExtractLineItems(RemoveAt(rows, r + 1), header_idx, boundaries)

C2_Witness ==
    /\ pc = "scanned" /\ header_idx # None
    /\ \E r \in AfterHeader :
          /\ Says(r, S_category_total)
          /\ \E k \in 1..Len(items) : item_row[k] > r

(* The Rows the loop parsed: after the header, before the Row it stopped   *)
(* at, and without a marker.                                               *)
Parsed ==
    { r \in AfterHeader :
        r < row_i /\ ~Says(r, S_category_total) /\ ~Says(r, S_printed) }
DescriptionOf(r) ==
    StripSerial(Strip(Join(Column(rows[r + 1], Val(boundaries), "desc"), <<" ">>)))
Coerced(r, col) == AsNumber(Join(Column(rows[r + 1], Val(boundaries), col), <<>>))
AmountTokens(r) == Column(rows[r + 1], Val(boundaries), "amt")

(* C5: every emitted LineItem has a non-empty name and, as its amount, the *)
(* first coercible token of its Row's amount bucket; its quantity is the   *)
(* coerced quantity bucket, or 1 when that is absent or zero; its rate is  *)
(* the coerced rate bucket, or the amount when that is absent or zero; and *)
(* a parsed Row with an empty description or no coercible amount token     *)
(* emits nothing, every other parsed Row exactly one LineItem.             *)
C5_LineItemFields ==
    (pc = "scanned" /\ header_idx # None) =>
        /\ \A k \in 1..Len(items) :
              LET r == item_row[k]
                  amts == AmountTokens(r)
                  q == Coerced(r, "qty")
                  rt == Coerced(r, "rate")
              IN /\ r \in Parsed
                 /\ items[k].item_name # <<>>
                 /\ items[k].item_name = DescriptionOf(r)
                 /\ \E j \in 1..Len(amts) :
                       /\ AsNumber(amts[j]) = Some(items[k].item_amount)
                       /\ \A i \in 1..(j - 1) : AsNumber(amts[i]) = None
                 /\ items[k].item_quantity =
                       (IF q = None \/ q = Some(0) THEN Scale ELSE Val(q))
                 /\ items[k].item_rate =
                       (IF rt = None \/ rt = Some(0) THEN items[k].item_amount ELSE Val(rt))
        /\ \A r \in Parsed :
              LET amts == AmountTokens(r)
                  invalid == \/ DescriptionOf(r) = <<>>
                             \/ \A j \in 1..Len(amts) : AsNumber(amts[j]) = None
              IN Cardinality(ItemsFrom(r)) = (IF invalid THEN 0 ELSE 1)

C5_Witness ==
    /\ pc = "scanned" /\ header_idx # None
    /\ \E k \in 1..Len(items) :
          /\ Coerced(item_row[k], "qty") = Some(0)
          /\ Coerced(item_row[k], "rate") = None
          /\ AsNumber(AmountTokens(item_row[k])[1]) = None
    /\ \E r \in Parsed : DescriptionOf(r) = <<>> /\ ItemsFrom(r) = {}

(* The largest boundary present. *)
LastCut(b) == CHOOSE v \in {b[n] : n \in DOMAIN b} : \A n \in DOMAIN b : b[n] <= v

(* C10 as stated: with a boundary missing, a token of a parsed Row at or   *)
(* beyond the last boundary present is in the amount bucket, and a Row     *)
(* with such a coercible token and a non-empty description yields a        *)
(* LineItem.                                                               *)
C10_PastLastBoundaryIsAmount ==
    (pc = "scanned" /\ header_idx # None) =>
        LET b == Val(boundaries) IN
        (DOMAIN b # {} /\ DOMAIN b # {"desc_end", "qty_end", "rate_end"}) =>
            \A r \in Parsed :
                LET row == rows[r + 1]
                    past == { j \in 1..Len(row) : 2 * row[j].x >= LastCut(b) }
                IN /\ \A j \in past : BucketOf(row[j].x, b) = "amt"
                   /\ ((\E j \in past : AsNumber(row[j].text) # None)
                          /\ DescriptionOf(r) # <<>>
                       => ItemsFrom(r) # {})

-----------------------------------------------------------------------------
(* Properties of the result and of the response.                           *)

HeaderText(r) ==
    \/ Says(r, S_description) /\ Says(r, S_qty) /\ Says(r, S_rate)
    \/ Says(r, S_qty) /\ (Says(r, S_gross) \/ Says(r, S_amount))

(* C3: when no Row passes the header test, find_table_header gives         *)
(* (None, None), extract_line_items gives no item, and the result, which   *)
(* is returned without an error, has total_item_count = 0 and              *)
(* reconciled_amount = 0.                                                  *)
C3_NoHeaderGivesEmptyResult ==
    (result # None /\ \A r \in 0..(Len(rows) - 1) : ~HeaderText(r)) =>
        /\ header_idx = None /\ boundaries = None
        /\ items = <<>>
        /\ Val(result).data.total_item_count = 0
        /\ Val(result).data.reconciled_amount = 0
        /\ (pc = "responded" => Val(response).is_success /\ Val(response).error = None)

C3_Witness ==
    /\ pc = "returned"
    /\ Len(rows) >= 2
    /\ \A r \in 0..(Len(rows) - 1) : ~HeaderText(r)
    /\ \E r \in 0..(Len(rows) - 1) : Says(r, S_qty)
    /\ Val(result).data.total_item_count = 0

RECURSIVE AmountsFrom(_, _)
AmountsFrom(bill_items, k) ==
    IF k > Len(bill_items) THEN 0
    ELSE bill_items[k].item_amount + AmountsFrom(bill_items, k + 1)

(* C4: the result has one page, page_no "1"; reconciled_amount is the sum  *)
(* of item_amount over its bill_items and total_item_count their number.   *)
C4_TotalsMatchItems ==
    result # None =>
        LET data == Val(result).data
            pages == data.pagewise_line_items
        IN /\ Len(pages) = 1
           /\ pages[1].page_no = "1"
           /\ pages[1].bill_items = items
           /\ data.total_item_count = Len(pages[1].bill_items)
           /\ data.reconciled_amount = AmountsFrom(pages[1].bill_items, 1)

C4_Witness ==
    /\ pc = "returned"
    /\ Len(items) >= 2
    /\ \E k \in 1..Len(items) : items[k].item_rate # items[k].item_amount
    /\ Val(result).data.reconciled_amount > items[1].item_amount

(* C9 as stated: on success the response is {is_success: true, data: D,    *)
(* error: null} with pagewise_line_items, total_item_count and             *)
(* reconciled_amount fields of D itself.                                   *)
C9_DataIsExtractionResult ==
    (pc = "responded" /\ result # None) =>
        /\ Val(response).is_success = TRUE
        /\ Val(response).error = None
        /\ Val(response).data # None
        /\ {"pagewise_line_items", "total_item_count", "reconciled_amount"}
              \subseteq DOMAIN Val(Val(response).data)

====
